---- MODULE Spec2Model ----
(***************************************************************************)
(* A model of generate.py: the transaction generation engine               *)
(* (TransactionDataGenerator.generate_transactions), the fraud scorer      *)
(* (_calculate_fraud_probability), the alert pass (generate_fraud_alerts)  *)
(* and the points rollup of save_csvs.                                     *)
(*                                                                         *)
(* Units.  Python floats are modelled as exact fixed-point integers:       *)
(*   probabilities        in 1e-5   (0.3      -> 30000)                    *)
(*   fraud_probability    in 1e-4   after round(..., 4)                    *)
(*   risk_score, fraud_rate in 1e-3 (0.4      -> 400)                      *)
(*   the Bernoulli rate and random.random() in 1e-9                        *)
(*   amounts              in cents  (237.00   -> 23700)                    *)
(*   datetimes            in seconds since a Monday 00:00                  *)
(* A nullable value is a sequence: <<>> is None, <<x>> is the value x.     *)
(* Every random draw is an input of the action that makes it.              *)
(***************************************************************************)
EXTENDS Integers, Sequences, FiniteSets, TLC

VARIABLES
    users,                 \* the users pool (argument of generate_transactions)
    cards,                 \* the cards pool
    merchants,             \* the merchants pool
    n_transactions,        \* the target count
    start_arg,             \* the start_date / end_date arguments (None: default)
    end_arg,
    clock,                 \* the last reading of datetime.now()
    start_date,            \* the window after lines 150-153
    end_date,
    i,                     \* accepted count (line 158)
    attempts,              \* attempt count (line 159)
    transactions,          \* the list built by the loop (line 155)
    last_tx_time_by_card,  \* card_id -> time of its last generated txn (line 156)
    pc,                    \* "call", "loop", "done", "error", "alerted", "saved"
    alerts,                \* result of generate_fraud_alerts
    points_df,             \* the points rollup of save_csvs
    seed,                  \* the seed given to __init__
    rng,                   \* draws consumed from the seeded generators
    run,                   \* which of two runs is executing (determinism check)
    first_run              \* the stream returned by the first run

vars == <<users, cards, merchants, n_transactions, start_arg, end_arg, clock,
          start_date, end_date, i, attempts, transactions, last_tx_time_by_card,
          pc, alerts, points_df, seed, rng, run, first_run>>

inputs == <<users, cards, merchants, n_transactions, start_arg, end_arg, seed>>
window == <<clock, start_date, end_date>>
loopvars == <<i, attempts, transactions, last_tx_time_by_card>>
outputs == <<alerts, points_df>>

(***************************************************************************)
(* Bounds of the model.                                                    *)
(***************************************************************************)
MaxN == 3            \* largest n_transactions of the generation specification
MaxFairN == 2        \* largest n_transactions of the termination specification
MaxPipeN == 2        \* largest n_transactions of the pipeline specification
MaxScoreN == 1       \* largest n_transactions of the scorer specification
MaxSeed == 2         \* seeds 0..MaxSeed in the determinism specification

(***************************************************************************)
(* Program constants.                                                      *)
(***************************************************************************)
AttemptFactor == 3           \* n_transactions * 3
DefaultWindowDays == 90      \* timedelta(days=90)
FraudAmountCap == 5000000    \* min(amount, 50000), in cents
NormalAmountCap == 500000    \* min(amount, 5000), in cents
AlertThreshold == 5000       \* fraud_probability > 0.5, in 1e-4
HighRiskThreshold == 8000    \* fraud_probability > 0.8, in 1e-4
FraudFloor == 50000          \* max(probability, 0.5), in 1e-5
WeekendStart == 5            \* weekday() >= 5
NightStart == 22             \* hour >= 22
NightEnd == 6                \* hour < 6

None == <<>>
Some(x) == <<x>>

Min(a, b) == IF a < b THEN a ELSE b
Max(a, b) == IF a > b THEN a ELSE b

(***************************************************************************)
(* self.merchant_categories: fraud_rate in 1e-3, avg_amount in cents.      *)
(***************************************************************************)
merchant_categories ==
    [c \in {"grocery", "gas_station", "restaurant", "retail", "electronics",
            "online_shopping", "travel", "entertainment", "healthcare",
            "utilities", "luxury_goods", "cryptocurrency", "money_transfer",
            "adult_entertainment", "gambling"} |->
       CASE c = "grocery"             -> [fraud_rate |-> 10,  avg_amount |-> 8550]
         [] c = "gas_station"         -> [fraud_rate |-> 20,  avg_amount |-> 4520]
         [] c = "restaurant"          -> [fraud_rate |-> 15,  avg_amount |-> 3280]
         [] c = "retail"              -> [fraud_rate |-> 25,  avg_amount |-> 12540]
         [] c = "electronics"         -> [fraud_rate |-> 35,  avg_amount |-> 45075]
         [] c = "online_shopping"     -> [fraud_rate |-> 40,  avg_amount |-> 8930]
         [] c = "travel"              -> [fraud_rate |-> 30,  avg_amount |-> 85020]
         [] c = "entertainment"       -> [fraud_rate |-> 20,  avg_amount |-> 6580]
         [] c = "healthcare"          -> [fraud_rate |-> 10,  avg_amount |-> 18050]
         [] c = "utilities"           -> [fraud_rate |-> 5,   avg_amount |-> 12030]
         [] c = "luxury_goods"        -> [fraud_rate |-> 80,  avg_amount |-> 250000]
         [] c = "cryptocurrency"      -> [fraud_rate |-> 120, avg_amount |-> 50000]
         [] c = "money_transfer"      -> [fraud_rate |-> 150, avg_amount |-> 30000]
         [] c = "adult_entertainment" -> [fraud_rate |-> 60,  avg_amount |-> 7500]
         [] c = "gambling"            -> [fraud_rate |-> 100, avg_amount |-> 20000]]

high_risk_locations ==
    <<"Miami, FL", "Las Vegas, NV", "Atlantic City, NJ",
      "Los Angeles, CA", "New York, NY", "Chicago, IL">>

normal_locations ==
    <<"Austin, TX", "Denver, CO", "Seattle, WA", "Portland, OR",
      "Boston, MA", "Philadelphia, PA", "Phoenix, AZ", "San Diego, CA",
      "Dallas, TX", "Houston, TX", "Atlanta, GA", "Nashville, TN">>

HighRiskCities == {"Miami", "Las Vegas", "Atlantic City"}

Range(s) == {s[k] : k \in DOMAIN s}

(***************************************************************************)
(* datetime: seconds since a Monday 00:00.                                 *)
(***************************************************************************)
Dt(day, h) == day * 86400 + h * 3600
Hour(t) == (t \div 3600) % 24
Weekday(t) == (t \div 86400) % 7
IsNight(t) == Hour(t) >= NightStart \/ Hour(t) < NightEnd
IsWeekend(t) == Weekday(t) >= WeekendStart

(***************************************************************************)
(* Lines 150-153: the default window is read from the wall clock.          *)
(***************************************************************************)
ResolveStart(arg, now) == IF arg = None THEN now - DefaultWindowDays * 86400 ELSE arg[1]
ResolveEnd(arg, now) == IF arg = None THEN now ELSE arg[1]

(***************************************************************************)
(* fake.date_time_between(start_date, end_date): a datetime of the window. *)
(* The draws enumerated are the window's start plus each offset.           *)
(***************************************************************************)
DateTimeBetweenPastEnd(start, end, offsets) ==
    {t \in {start + o : o \in offsets} : start <= t /\ t <= end} \cup {end + 1}

DateTimeBetween(start, end, offsets) ==
    {t \in {start + o : o \in offsets} : start <= t /\ t <= end}

(***************************************************************************)
(* Line 163: the chosen user's active cards, in pool order.                *)
(***************************************************************************)
UserCardsAnyState(user) ==
    SelectSeq(cards, LAMBDA c : c.user_id = user.user_id)

UserCards(user) ==
    SelectSeq(cards, LAMBDA c : c.user_id = user.user_id /\ c.is_active)

(***************************************************************************)
(* Line 160: the loop condition.                                           *)
(***************************************************************************)
LoopCondOffByOne ==
    i < n_transactions /\ attempts <= n_transactions * AttemptFactor

LoopCond ==
    i < n_transactions /\ attempts < n_transactions * AttemptFactor

(***************************************************************************)
(* Lines 171-181: the effective fraud rate (1e-9) and the Bernoulli label. *)
(***************************************************************************)
UserFraudRate(user, merchant, t) ==
    merchant_categories[merchant.merchant_category].fraud_rate
      * (1000 + user.risk_score)
      * (IF IsNight(t) THEN 15 ELSE 10)
      * (IF IsWeekend(t) THEN 12 ELSE 10)
      * (IF merchant.city \in HighRiskCities THEN 13 ELSE 10)

IsFraud(user, merchant, t, r) == r < UserFraudRate(user, merchant, t)

(***************************************************************************)
(* Lines 183-188: the log-normal draw, capped by the label.                *)
(***************************************************************************)
Amount(is_fraud, raw) ==
    IF is_fraud THEN Min(raw, FraudAmountCap) ELSE Min(raw, NormalAmountCap)

(***************************************************************************)
(* Lines 190-193: coin is random.random() in 1e-3, k the index chosen.     *)
(***************************************************************************)
Location(is_fraud, coin, k) ==
    IF is_fraud /\ coin < 300
    THEN high_risk_locations[((k - 1) % Len(high_risk_locations)) + 1]
    ELSE normal_locations[((k - 1) % Len(normal_locations)) + 1]

(***************************************************************************)
(* Lines 198-203: the gap to the card's previous generated transaction.    *)
(***************************************************************************)
PrevTime(card_id) ==
    IF card_id \in DOMAIN last_tx_time_by_card
    THEN Some(last_tx_time_by_card[card_id]) ELSE None

SecondsSinceReversed(t, prev_time) ==
    IF prev_time # None THEN Some(prev_time[1] - t) ELSE None

SecondsSince(t, prev_time) ==
    IF prev_time # None THEN Some(t - prev_time[1]) ELSE None

(***************************************************************************)
(* _calculate_fraud_probability, lines 121-144, in 1e-5.                   *)
(***************************************************************************)
ClampNone(p) == p

Clamp(p) == Max(0, Min(100000, p))

AmountTier(amount) ==
    IF amount > 1000000 THEN 30000
    ELSE IF amount > 500000 THEN 20000
    ELSE IF amount > 100000 THEN 10000
    ELSE 0

CalculateFraudProbability(amount, t, location, category, user_risk_score, is_fraud, noise) ==
    LET raw == AmountTier(amount)
               + (IF IsNight(t) THEN 15000 ELSE 0)
               + (IF IsWeekend(t) THEN 10000 ELSE 0)
               + (IF location \in Range(high_risk_locations) THEN 20000 ELSE 0)
               + merchant_categories[category].fraud_rate * 2 * 100
               + user_risk_score * 30
               + noise
        clamped == Clamp(raw)
    IN  IF is_fraud THEN Max(clamped, FraudFloor) ELSE clamped

(***************************************************************************)
(* round(x, 4), line 205: 1e-5 to 1e-4, ties to the even digit.            *)
(***************************************************************************)
Round4(p) ==
    LET q == p \div 10
        r == p % 10
    IN  IF r > 5 \/ (r = 5 /\ q % 2 = 1) THEN q + 1 ELSE q

(***************************************************************************)
(* The seeded generators (lines 28-30): the k-th draw of generator g is a  *)
(* fixed function of the seed.  rng counts the draws consumed from         *)
(* random (r), numpy (n) and Faker (f).                                    *)
(***************************************************************************)
Seeded == [r |-> 0, n |-> 0, f |-> 0]

Stream(s, g, k) == ((s + 1) * 7919 + g * 1299709 + k * 104729) % 1000003

Advance(nr, nn, nf) == [r |-> rng.r + nr, n |-> rng.n + nn, f |-> rng.f + nf]

(***************************************************************************)
(* The record of lines 209-230 (the fields the stream's consumers read;    *)
(* ids are the number in the formatted id).                                *)
(***************************************************************************)
Txn(user, card, merchant, t, r, raw, coin, k, noise) ==
    LET is_fraud == IsFraud(user, merchant, t, r)
        amount == Amount(is_fraud, raw)
        location == Location(is_fraud, coin, k)
    IN  [transaction_id |-> i + 1,
         card_id |-> card.card_id,
         user_id |-> user.user_id,
         merchant_id |-> merchant.merchant_id,
         merchant_category |-> merchant.merchant_category,
         amount |-> amount,
         transaction_time |-> t,
         location |-> location,
         seconds_since_prev_tx |-> SecondsSince(t, PrevTime(card.card_id)),
         is_fraud |-> is_fraud,
         fraud_probability |->
             Round4(CalculateFraudProbability(amount, t, location,
                        merchant.merchant_category, user.risk_score,
                        is_fraud, noise))]

(***************************************************************************)
(* generate_transactions, lines 146-159: the call resolves the window      *)
(* from two readings of the clock and starts the loop.                     *)
(***************************************************************************)
Call(clocks) ==
    /\ pc = "call"
    /\ \E now1 \in clocks, now2 \in clocks :
         /\ clock <= now1 /\ now1 <= now2
         /\ start_date' = ResolveStart(start_arg, now1)
         /\ end_date' = ResolveEnd(end_arg, now2)
         /\ clock' = now2
    /\ i' = 0
    /\ attempts' = 0
    /\ transactions' = <<>>
    /\ last_tx_time_by_card' = <<>>
    /\ pc' = "loop"
    /\ UNCHANGED <<inputs, outputs, rng, run, first_run>>

(***************************************************************************)
(* One iteration of the loop of lines 160-233, by its four outcomes.       *)
(***************************************************************************)
\* line 162 on an empty pool: random.choice raises IndexError
NoUsers ==
    /\ pc = "loop" /\ LoopCond
    /\ users = <<>>
    /\ attempts' = attempts + 1
    /\ pc' = "error"
    /\ UNCHANGED <<inputs, window, outputs, i, transactions,
                   last_tx_time_by_card, rng, run, first_run>>

\* lines 164-165: the chosen user has no active card
Skip(ui) ==
    /\ pc = "loop" /\ LoopCond
    /\ ui \in DOMAIN users
    /\ UserCards(users[ui]) = <<>>
    /\ attempts' = attempts + 1
    /\ rng' = Advance(1, 0, 0)
    /\ UNCHANGED <<inputs, window, outputs, i, transactions,
                   last_tx_time_by_card, pc, run, first_run>>

\* line 167 on an empty pool: random.choice raises IndexError
NoMerchants(ui) ==
    /\ pc = "loop" /\ LoopCond
    /\ ui \in DOMAIN users
    /\ UserCards(users[ui]) # <<>>
    /\ merchants = <<>>
    /\ attempts' = attempts + 1
    /\ rng' = Advance(2, 0, 0)
    /\ pc' = "error"
    /\ UNCHANGED <<inputs, window, outputs, i, transactions,
                   last_tx_time_by_card, run, first_run>>

\* lines 166-233: a transaction is generated and accepted
Accept(ui, ci, mi, t, r, raw, coin, k, noise) ==
    /\ pc = "loop" /\ LoopCond
    /\ ui \in DOMAIN users
    /\ ci \in DOMAIN UserCards(users[ui])
    /\ mi \in DOMAIN merchants
    /\ LET user == users[ui]
           card == UserCards(user)[ci]
           txn == Txn(user, card, merchants[mi], t, r, raw, coin, k, noise)
       IN  /\ transactions' = Append(transactions, txn)
           /\ last_tx_time_by_card' =
                 [id \in DOMAIN last_tx_time_by_card \cup {card.card_id} |->
                    IF id = card.card_id THEN t ELSE last_tx_time_by_card[id]]
           /\ rng' = Advance(IF txn.is_fraud THEN 10 ELSE 9, 1, 3)
    /\ attempts' = attempts + 1
    /\ i' = i + 1
    /\ UNCHANGED <<inputs, window, outputs, pc, run, first_run>>

\* line 235: the loop condition fails and the list is returned
Return ==
    /\ pc = "loop" /\ ~LoopCond
    /\ pc' = "done"
    /\ UNCHANGED <<inputs, window, outputs, loopvars, rng, run, first_run>>

(***************************************************************************)
(* generate_fraud_alerts, lines 237-252.  statuses[j] is the status drawn  *)
(* for the j-th alert.                                                     *)
(***************************************************************************)
FlaggedInclusive(tx) == tx.fraud_probability >= AlertThreshold

Flagged(tx) == tx.fraud_probability > AlertThreshold

RiskLevel(tx) ==
    IF tx.fraud_probability > HighRiskThreshold THEN "high" ELSE "medium"

FraudAlerts(txs, statuses) ==
    LET flagged == SelectSeq(txs, Flagged)
    IN  [j \in 1..Len(flagged) |->
           [alert_id |-> flagged[j].transaction_id,
            transaction_id |-> flagged[j].transaction_id,
            user_id |-> flagged[j].user_id,
            fraud_probability |-> flagged[j].fraud_probability,
            risk_level |-> RiskLevel(flagged[j]),
            status |-> statuses[j]]]

GenerateFraudAlerts(status_draws) ==
    /\ pc = "done"
    /\ \E statuses \in [1..Len(SelectSeq(transactions, Flagged)) -> status_draws] :
         alerts' = FraudAlerts(transactions, statuses)
    /\ rng' = Advance(Len(SelectSeq(transactions, Flagged)), 0, 0)
    /\ pc' = "alerted"
    /\ UNCHANGED <<inputs, window, loopvars, points_df, run, first_run>>

(***************************************************************************)
(* The points rollup of save_csvs, lines 272-278.                          *)
(***************************************************************************)
RECURSIVE TotalSpent(_, _)
TotalSpent(txs, uid) ==
    IF txs = <<>> THEN 0
    ELSE (IF Head(txs).user_id = uid THEN Head(txs).amount ELSE 0)
         + TotalSpent(Tail(txs), uid)

\* line 274: (total_spent / 10).astype(int), total_spent in cents
BasePoints(total_spent) == total_spent \div 1000

FinalPointsRounded(base, risk_score) == (base * 1000 + risk_score * 10 + 500) \div 1000

\* line 277: (points + risk_score * 10).astype(int), risk_score in 1e-3
FinalPoints(base, risk_score) == (base * 1000 + risk_score * 10) \div 1000

RiskScoreOf(uid) ==
    LET us == SelectSeq(users, LAMBDA u : u.user_id = uid)
    IN  IF us = <<>> THEN 0 ELSE us[1].risk_score

PointsTable(txs) ==
    [uid \in {txs[j].user_id : j \in DOMAIN txs} |->
       [user_id |-> uid,
        total_spent |-> TotalSpent(txs, uid),
        points |-> FinalPoints(BasePoints(TotalSpent(txs, uid)), RiskScoreOf(uid))]]

\* an empty list makes a frame without columns: groupby('user_id') raises KeyError
PointsNoTransactions ==
    /\ pc = "alerted"
    /\ transactions = <<>>
    /\ pc' = "error"
    /\ UNCHANGED <<inputs, window, loopvars, outputs, rng, run, first_run>>

PointsRollup ==
    /\ pc = "alerted"
    /\ transactions # <<>>
    /\ points_df' = PointsTable(transactions)
    /\ pc' = "saved"
    /\ UNCHANGED <<inputs, window, loopvars, alerts, rng, run, first_run>>

(***************************************************************************)
(* The pools generate_users, generate_cards and generate_merchants build   *)
(* (lines 62-119): ids are unique and every user owns at least one card.   *)
(***************************************************************************)
UserPools(counts, actives, risks) ==
    UNION { { [j \in 1..k |-> [user_id |-> j, is_active |-> f[j][1], risk_score |-> f[j][2]]] :
              f \in [1..k -> actives \X risks] } : k \in counts }

CardsOf(uid, counts) ==
    UNION { { [c \in 1..nc |-> [card_id |-> <<uid, c>>, user_id |-> uid, is_active |-> f[c]]] :
              f \in [1..nc -> BOOLEAN] } : nc \in counts }

RECURSIVE CardPools(_, _)
CardPools(k, counts) ==
    IF k = 0 THEN {<<>>}
    ELSE { prev \o mine : prev \in CardPools(k - 1, counts), mine \in CardsOf(k, counts) }

MerchantPools(counts, actives, categories, cities) ==
    UNION { { [j \in 1..k |-> [merchant_id |-> j, merchant_category |-> f[j][1],
                               city |-> f[j][2], is_active |-> f[j][3]]] :
              f \in [1..k -> categories \X cities \X actives] } : k \in counts }

InitCommon ==
    /\ clock = 0
    /\ start_date = 0
    /\ end_date = 0
    /\ i = 0
    /\ attempts = 0
    /\ transactions = <<>>
    /\ last_tx_time_by_card = <<>>
    /\ pc = "call"
    /\ alerts = <<>>
    /\ points_df = <<>>
    /\ rng = Seeded
    /\ run = 1
    /\ first_run = <<>>

(***************************************************************************)
(* The generation specification: every pool shape, the window's ends and   *)
(* one interior time; the other draws are fixed.                           *)
(***************************************************************************)
GenUserCounts == 0..2
GenCardCounts == {1, 2}
GenMerchantCounts == 0..1
GenClocks == {Dt(95, 23)}
GenOffsets == {0, 13 * 3600, DefaultWindowDays * 86400}

Init ==
    /\ users \in UserPools(GenUserCounts, BOOLEAN, {400})
    /\ cards \in CardPools(Len(users), GenCardCounts)
    /\ merchants \in MerchantPools(GenMerchantCounts, BOOLEAN, {"grocery"}, {"Austin"})
    /\ n_transactions \in 0..MaxN
    /\ start_arg = None
    /\ end_arg = None
    /\ seed = 42
    /\ InitCommon

GenCall == Call(GenClocks)

AttemptNoUsers == NoUsers

AttemptSkip == \E ui \in DOMAIN users : Skip(ui)

AttemptNoMerchants == \E ui \in DOMAIN users : NoMerchants(ui)

AttemptAccept ==
    \E ui \in DOMAIN users, mi \in DOMAIN merchants :
      \E ci \in DOMAIN UserCards(users[ui]) :
        \E t \in DateTimeBetween(start_date, end_date, GenOffsets) :
          Accept(ui, ci, mi, t, 999999999, 5000, 500, 1, 0)

Next ==
    \/ GenCall
    \/ AttemptNoUsers
    \/ AttemptSkip
    \/ AttemptNoMerchants
    \/ AttemptAccept
    \/ Return

Spec == Init /\ [][Next]_vars

(***************************************************************************)
(* The termination specification: the generation specification's pools,    *)
(* with the fairness of a sequential program: a loop that can take a step  *)
(* does take it.                                                           *)
(***************************************************************************)
InitFair ==
    /\ users \in UserPools(GenUserCounts, BOOLEAN, {400})
    /\ cards \in CardPools(Len(users), GenCardCounts)
    /\ merchants \in MerchantPools(GenMerchantCounts, BOOLEAN, {"grocery"}, {"Austin"})
    /\ n_transactions \in 0..MaxFairN
    /\ start_arg = None
    /\ end_arg = None
    /\ seed = 42
    /\ InitCommon

FairSpec == InitFair /\ [][Next]_vars /\ WF_vars(Next)

(***************************************************************************)
(* The scorer specification: one user, one card, one merchant (or none),   *)
(* and every scorer input varied: risk score, category, time, label,       *)
(* amount tier, location and noise.                                        *)
(***************************************************************************)
ScoreRisks == {0, 400, 999}
ScoreCategories == {"utilities", "money_transfer"}
ScoreClocks == {Dt(95, 23)}
ScoreOffsets == {0, 13 * 3600, 37 * 3600}
ScoreFraudDraws == {0, 200000000, 999999999}
ScoreAmounts == {5000, 100001, 500001, 1000001}
ScoreCoins == {0, 300}
ScoreNoise == {-10000, -4, 15, 10000}

InitScore ==
    /\ users \in UserPools(0..1, {TRUE}, ScoreRisks)
    /\ cards \in CardPools(Len(users), {1})
    /\ merchants \in MerchantPools(0..1, {TRUE}, ScoreCategories, {"Miami"})
    /\ n_transactions \in 1..MaxScoreN
    /\ start_arg = None
    /\ end_arg = None
    /\ seed = 42
    /\ InitCommon

ScoreCall == Call(ScoreClocks)

ScoreAccept ==
    \E ui \in DOMAIN users, mi \in DOMAIN merchants :
      \E ci \in DOMAIN UserCards(users[ui]) :
        \E t \in DateTimeBetween(start_date, end_date, ScoreOffsets),
           r \in ScoreFraudDraws, raw \in ScoreAmounts, coin \in ScoreCoins,
           noise \in ScoreNoise :
          Accept(ui, ci, mi, t, r, raw, coin, 1, noise)

NextScore ==
    \/ ScoreCall
    \/ AttemptNoUsers
    \/ AttemptSkip
    \/ AttemptNoMerchants
    \/ ScoreAccept
    \/ Return

SpecScore == InitScore /\ [][NextScore]_vars

(***************************************************************************)
(* The pipeline specification: save_csvs after the pools are built:        *)
(* generate_transactions, generate_fraud_alerts, the points rollup.        *)
(***************************************************************************)
PipeRisks == {400, 450}
PipeClocks == {Dt(95, 23)}
PipeOffsets == {0}
PipeFraudDraws == {0, 999999999}
PipeAmounts == {23700, 2000000}
PipeCoins == {0}
PipeNoise == {-10000, -9000, 1000}
PipeStatuses == {"pending", "resolved"}

InitPipeline ==
    /\ users \in UserPools(0..2, {TRUE}, PipeRisks)
    /\ cards \in CardPools(Len(users), {1})
    /\ merchants \in MerchantPools(0..1, {TRUE}, {"grocery"}, {"Austin"})
    /\ n_transactions \in 0..MaxPipeN
    /\ start_arg = None
    /\ end_arg = None
    /\ seed = 42
    /\ InitCommon

PipeCall == Call(PipeClocks)

PipeAccept ==
    \E ui \in DOMAIN users, mi \in DOMAIN merchants :
      \E ci \in DOMAIN UserCards(users[ui]) :
        \E t \in DateTimeBetween(start_date, end_date, PipeOffsets),
           r \in PipeFraudDraws, raw \in PipeAmounts, coin \in PipeCoins,
           noise \in PipeNoise :
          Accept(ui, ci, mi, t, r, raw, coin, 1, noise)

PipeAlerts == GenerateFraudAlerts(PipeStatuses)

NextPipeline ==
    \/ PipeCall
    \/ AttemptNoUsers
    \/ AttemptSkip
    \/ AttemptNoMerchants
    \/ PipeAccept
    \/ Return
    \/ PipeAlerts
    \/ PointsNoTransactions
    \/ PointsRollup

SpecPipeline == InitPipeline /\ [][NextPipeline]_vars

(***************************************************************************)
(* The determinism specification: two runs of generate_transactions with   *)
(* the same seed and the same arguments, each in a fresh process, the      *)
(* second started at a later time.  Every draw comes from the seeded       *)
(* generators, in the order the code makes them.                           *)
(***************************************************************************)
DetClocks == {Dt(95, 23), Dt(96, 1)}
DetWindows == {<<None, None>>, <<Some(Dt(5, 23)), Some(Dt(95, 23))>>}

Pick(x, n) == IF n = 0 THEN 0 ELSE (x % n) + 1

InitDet ==
    /\ users \in UserPools(0..2, {TRUE}, {400})
    /\ cards \in CardPools(Len(users), {1})
    /\ merchants \in MerchantPools(0..1, {TRUE}, {"money_transfer"}, {"Miami"})
    /\ n_transactions \in 1..2
    /\ \E w \in DetWindows : start_arg = w[1] /\ end_arg = w[2]
    /\ seed \in 0..MaxSeed
    /\ InitCommon

DetCall == Call(DetClocks)

DetAttempt ==
    LET ui == Pick(Stream(seed, 0, rng.r), Len(users))
        user_cards == IF ui = 0 THEN <<>> ELSE UserCards(users[ui])
        ci == Pick(Stream(seed, 0, rng.r + 1), Len(user_cards))
        mi == Pick(Stream(seed, 0, rng.r + 2), Len(merchants))
        t == start_date + (Stream(seed, 2, rng.f) % (end_date - start_date + 1))
        r == (Stream(seed, 0, rng.r + 3) * 997) % 1000000000
        is_fraud == mi # 0 /\ ui # 0 /\ IsFraud(users[ui], merchants[mi], t, r)
        raw == 1 + (Stream(seed, 1, rng.n) % 6000000)
        shift == IF is_fraud THEN 1 ELSE 0
        coin == Stream(seed, 0, rng.r + 4) % 1000
        k == 1 + Stream(seed, 0, rng.r + 4 + shift)
        noise == (Stream(seed, 0, rng.r + 7 + shift) % 20001) - 10000
    IN  \/ NoUsers
        \/ Skip(ui)
        \/ NoMerchants(ui)
        \/ Accept(ui, ci, mi, t, r, raw, coin, k, noise)

\* the first run's stream is kept; the second run is a new process, whose
\* __init__ seeds the generators again
NextRun ==
    /\ pc = "done" /\ run = 1
    /\ first_run' = transactions
    /\ run' = 2
    /\ rng' = Seeded
    /\ pc' = "call"
    /\ UNCHANGED <<inputs, window, loopvars, outputs>>

NextDet ==
    \/ DetCall
    \/ DetAttempt
    \/ Return
    \/ NextRun

SpecDet == InitDet /\ [][NextDet]_vars

(***************************************************************************)
(* Properties.                                                             *)
(***************************************************************************)
TxnsOfCardBefore(j) ==
    {k \in 1..(j - 1) : transactions[k].card_id = transactions[j].card_id}

MaxOf(S) == CHOOSE x \in S : \A y \in S : y <= x

\* C1: every generated transaction's card_id is the id of a card of the
\* pool that is active and whose user_id is the transaction's user_id.
C1_CardActiveAndOwned ==
    \A j \in DOMAIN transactions :
      \E c \in Range(cards) :
        /\ c.card_id = transactions[j].card_id
        /\ c.is_active
        /\ c.user_id = transactions[j].user_id

\* a transaction was generated for a user who also owns an inactive card
C1_Witness ==
    \E j \in DOMAIN transactions :
      \E c \in Range(cards) :
        c.user_id = transactions[j].user_id /\ ~c.is_active

\* C2: generate_transactions terminates; the accepted count never exceeds
\* n_transactions and the attempt count never exceeds 3 * n_transactions;
\* a returned stream shorter than n_transactions was returned after exactly
\* 3 * n_transactions attempts; and once the attempts are used up the loop
\* ends by returning, not by raising.
C2_Terminates ==
    /\ <>(pc \in {"done", "error"})
    /\ [](/\ Len(transactions) = i
          /\ i <= n_transactions
          /\ attempts <= 3 * n_transactions
          /\ (pc = "done" /\ Len(transactions) < n_transactions
                => attempts = 3 * n_transactions))
    /\ [][pc = "loop" /\ (i = n_transactions \/ attempts = 3 * n_transactions)
            => pc' = "done"]_vars

\* a short, non-empty stream was returned at the attempt cap
C2_Witness ==
    /\ pc = "done"
    /\ 0 < Len(transactions)
    /\ Len(transactions) < n_transactions
    /\ attempts = 3 * n_transactions

\* C3: per card, the first generated transaction has a null
\* seconds_since_prev_tx, and each later one has its transaction_time minus
\* the transaction_time of the card's immediately preceding transaction.
C3_GapPerCard ==
    \A j \in DOMAIN transactions :
      IF TxnsOfCardBefore(j) = {}
      THEN transactions[j].seconds_since_prev_tx = None
      ELSE transactions[j].seconds_since_prev_tx =
             Some(transactions[j].transaction_time
                  - transactions[MaxOf(TxnsOfCardBefore(j))].transaction_time)

\* a card's second transaction follows a transaction of another card, at a
\* different time than the card's first
C3_Witness ==
    \E j \in DOMAIN transactions :
      /\ TxnsOfCardBefore(j) # {}
      /\ MaxOf(TxnsOfCardBefore(j)) < j - 1
      /\ transactions[j].seconds_since_prev_tx # None
      /\ transactions[j].seconds_since_prev_tx # Some(0)

\* C4: every transaction's fraud_probability is in [0, 1], and at least 0.5
\* when the transaction is labelled fraud.
C4_ProbabilityRange ==
    \A j \in DOMAIN transactions :
      /\ 0 <= transactions[j].fraud_probability
      /\ transactions[j].fraud_probability <= 10000
      /\ transactions[j].is_fraud => transactions[j].fraud_probability >= 5000

\* a fraud-labelled transaction whose inputs sum below 0.5 sits at the floor
C4_Witness ==
    \E j \in DOMAIN transactions :
      /\ transactions[j].is_fraud
      /\ transactions[j].fraud_probability = 5000
      /\ transactions[j].merchant_category = "utilities"
      /\ transactions[j].location \in Range(normal_locations)

\* C5: two runs with the same seed and the same arguments (the default
\* window included) return the same transaction stream.
C5_Deterministic ==
    (run = 2 /\ pc = "done") => transactions = first_run

\* with the window given explicitly, the two runs do return the same stream
DeterministicGivenWindow ==
    (run = 2 /\ pc = "done" /\ start_arg # None /\ end_arg # None)
      => transactions = first_run

ConfigError ==
    \/ merchants = <<>>
    \/ \A c \in Range(cards) : ~c.is_active

\* C6: on a configuration error (no merchant, or no active card) the call
\* fails with a precondition violation: it never runs the retry loop to its
\* end and returns a stream.
C6_FailFast ==
    (ConfigError /\ n_transactions > 0) => pc # "done"

\* C7: every generated transaction's user and merchant are in the pools
\* and active.
C7_UserAndMerchantLive ==
    \A j \in DOMAIN transactions :
      /\ \E u \in Range(users) :
           u.user_id = transactions[j].user_id /\ u.is_active
      /\ \E m \in Range(merchants) :
           m.merchant_id = transactions[j].merchant_id /\ m.is_active

AlertsOf(tx) == {a \in DOMAIN alerts : alerts[a].transaction_id = tx.transaction_id}

\* C8: the alerts are one per transaction with fraud_probability > 0.5 and
\* none for any other; risk_level is "high" iff fraud_probability > 0.8,
\* otherwise "medium".
C8_AlertSet ==
    pc \in {"alerted", "saved"} =>
      /\ \A j \in DOMAIN transactions :
           Cardinality(AlertsOf(transactions[j])) =
             IF transactions[j].fraud_probability > 5000 THEN 1 ELSE 0
      /\ \A a \in DOMAIN alerts :
           \E j \in DOMAIN transactions :
             /\ alerts[a].transaction_id = transactions[j].transaction_id
             /\ alerts[a].risk_level \in {"high", "medium"}
             /\ alerts[a].risk_level = "high"
                  <=> transactions[j].fraud_probability > 8000

\* a fraud-labelled transaction scored exactly 0.5 has no alert, and a
\* transaction scored exactly 0.8 has a "medium" alert
C8_Witness ==
    /\ pc = "alerted"
    /\ \E j \in DOMAIN transactions :
         /\ transactions[j].is_fraud
         /\ transactions[j].fraud_probability = 5000
         /\ AlertsOf(transactions[j]) = {}
    /\ \E a \in DOMAIN alerts :
         alerts[a].fraud_probability = 8000 /\ alerts[a].risk_level = "medium"

UsersWithTransactions == {transactions[j].user_id : j \in DOMAIN transactions}

AmountsOf(uid) == {j \in DOMAIN transactions : transactions[j].user_id = uid}

RECURSIVE SumAmounts(_)
SumAmounts(S) ==
    IF S = {} THEN 0
    ELSE LET j == CHOOSE x \in S : TRUE
         IN  transactions[j].amount + SumAmounts(S \ {j})

\* C9: for every user with a transaction, total_spent is the sum of the
\* user's amounts and points = floor(floor(total_spent / 10) + 10 * risk);
\* total_spent = 237.00 with risk_score = 0.4 gives 27 points.
C9_Points ==
    pc = "saved" =>
      /\ DOMAIN points_df = UsersWithTransactions
      /\ \A uid \in UsersWithTransactions :
           LET total == SumAmounts(AmountsOf(uid))
               risk == users[uid].risk_score
               base == total \div 1000
           IN  /\ points_df[uid].total_spent = total
               /\ points_df[uid].points * 1000 <= base * 1000 + risk * 10
               /\ base * 1000 + risk * 10 < (points_df[uid].points + 1) * 1000
               /\ (total = 23700 /\ risk = 400) => points_df[uid].points = 27

\* the example of the claim, beside a second user whose risk bonus has a
\* fractional part
C9_Witness ==
    /\ pc = "saved"
    /\ \E uid \in DOMAIN points_df :
         /\ users[uid].risk_score = 400
         /\ points_df[uid].total_spent = 23700
         /\ points_df[uid].points = 27
    /\ \E uid \in DOMAIN points_df : users[uid].risk_score = 450

\* C10 as claimed: seconds_since_prev_tx is null or non-negative.
C10_NonNegative ==
    \A j \in DOMAIN transactions :
      \/ transactions[j].seconds_since_prev_tx = None
      \/ transactions[j].seconds_since_prev_tx[1] >= 0

\* C10 as amended: seconds_since_prev_tx is null or a number, negative when
\* the card's previous generated transaction has a later timestamp, whose
\* magnitude is at most end_date - start_date.
C10_WithinWindow ==
    \A j \in DOMAIN transactions :
      \/ transactions[j].seconds_since_prev_tx = None
      \/ /\ transactions[j].seconds_since_prev_tx[1] <= end_date - start_date
         /\ transactions[j].seconds_since_prev_tx[1] >= start_date - end_date

\* a card's later transaction is drawn at the window's start after one at
\* the window's end: the gap is minus the window's width
C10_Witness ==
    \E j \in DOMAIN transactions :
      /\ transactions[j].seconds_since_prev_tx # None
      /\ transactions[j].seconds_since_prev_tx[1] = start_date - end_date
      /\ start_date < end_date

====
